---- MODULE Spec2Model ----
(***************************************************************************)
(* Model of test-script/pyspark-test.py: a linear PySpark smoke test that  *)
(* opens a session, reads the text resource /abc into a cached DataFrame,  *)
(* counts the lines containing 'a' and the lines containing 'b', prints    *)
(* both counts and stops the session.                                      *)
(*                                                                         *)
(* The script is one process whose position is pc.  The resource /abc and  *)
(* the engine's block store belong to the environment: the resource may be *)
(* rewritten by another actor at any time, and the engine may drop the     *)
(* blocks of a cached DataFrame (cache() is lazy and best effort: lost     *)
(* blocks are recomputed from the source).                                 *)
(***************************************************************************)
EXTENDS Integers, Sequences, FiniteSets, TLC

(* ---------------- bounds of the model ---------------- *)
MaxLines == 3
MaxMutations == 1

(* ---------------- the inputs ---------------- *)
banana == <<"b", "a", "n", "a", "n", "a">>
apple == <<"a", "p", "p", "l", "e">>
cherry == <<"c", "h", "e", "r", "r", "y">>
Abc == <<"A", "b", "c">>

Lines == {banana, apple, cherry, Abc}

RECURSIVE SeqsUpTo(_, _)
SeqsUpTo(S, n) ==
    IF n = 0 THEN {<<>>}
    ELSE LET shorter == SeqsUpTo(S, n - 1)
         IN  shorter \cup {Append(s, x) : s \in {t \in shorter : Len(t) = n - 1}, x \in S}

Contents == SeqsUpTo(Lines, MaxLines)

Missing == [exists |-> FALSE, lines |-> <<>>]
Present(ls) == [exists |-> TRUE, lines |-> ls]

(* ---------------- the literals of the script ---------------- *)
path == "/abc"
needleA == <<"a">>
needleB == <<"b">>

(* ---------------- the engine's functions ---------------- *)
\* Variant: startswith in place of contains.
ContainsPrefix(s, sub) ==
    Len(s) >= Len(sub) /\ SubSeq(s, 1, Len(sub)) = sub

\* Column.contains: exact, case-sensitive substring containment.
Contains(s, sub) ==
    \E i \in 0..(Len(s) - Len(sub)) : SubSeq(s, i + 1, i + Len(sub)) = sub

\* spark.read.text: one row per line, the text in the column "value".
ReadText(ls) == [i \in 1..Len(ls) |-> [value |-> ls[i]]]

\* DataFrame.filter(col("value").contains(sub))
Filter(rows, sub) == SelectSeq(rows, LAMBDA r : Contains(r.value, sub))

\* DataFrame.count
Count(rows) == Len(rows)

\* Variant: the DataFrame is not cached; every action scans the source.
EvaluateNoCache(c, f) == ReadText(f.lines)

\* The rows an action on the cached DataFrame works on: the cached blocks
\* when the engine holds them, else the source is scanned again.
Evaluate(c, f) == IF c.valid THEN c.rows ELSE ReadText(f.lines)

\* Whether an action on the DataFrame can produce its rows at all.
Readable(c, f) == c.valid \/ f.exists

\* "%i" of a non-negative integer: its decimal digits.
Digit(d) == CASE d = 0 -> "0" [] d = 1 -> "1" [] d = 2 -> "2" [] d = 3 -> "3"
              [] d = 4 -> "4" [] d = 5 -> "5" [] d = 6 -> "6" [] d = 7 -> "7"
              [] d = 8 -> "8" [] d = 9 -> "9"

RECURSIVE Dec(_)
Dec(n) == IF n < 10 THEN <<Digit(n)>> ELSE Append(Dec(n \div 10), Digit(n % 10))

\* "Lines with a: %i, lines with b: %i" % (numAs, numBs)
Format(a, b) == <<"Lines with a: ">> \o Dec(a) \o <<", lines with b: ">> \o Dec(b)

(* ---------------- the state ---------------- *)
VARIABLES
    file,        \* the resource /abc: [exists, lines]
    pc,          \* position of the script
    spark,       \* the session: "none", "open", "stopped"
    sc,          \* spark.sparkContext: "none" or "ctx"
    logData,     \* the DataFrame: [defined, path, cached]
    cache,       \* the engine's cached blocks of logData: [valid, rows]
    numAs,       \* <<>> before line 9, <<n>> after
    numBs,       \* <<>> before line 10, <<n>> after
    stdout,      \* the lines printed by this run
    trace,       \* history: the steps of this run, [step, ok, session]
    seenA,       \* history: <<rows>> the count for 'a' worked on
    seenB,       \* history: <<rows>> the count for 'b' worked on
    fileAtRead,  \* history: <<file>> as it was when line 7 ran
    snapshots,   \* history: the contents /abc had during this run
    recomputed,  \* history: the count for 'b' scanned the source again
    mutatedBetween, \* history: /abc was rewritten between line 9 and line 10
    acquired,    \* history: sessions acquired in this run
    released,    \* history: sessions released in this run
    mutations,   \* number of rewrites of /abc so far
    run,         \* 1 in the first run of the script, 2 in the second
    runStart,    \* history: the value of mutations when this run started
    transcript   \* history: the finished first run, <<[out, ok, m0, m1]>>

envVars == <<file, mutations>>
scriptVars == <<pc, spark, sc, logData, numAs, numBs, stdout>>
histVars == <<trace, seenA, seenB, fileAtRead, recomputed, acquired, released>>
vars == <<file, pc, spark, sc, logData, cache, numAs, numBs, stdout, trace,
          seenA, seenB, fileAtRead, snapshots, recomputed, acquired, released,
          mutations, run, runStart, transcript, mutatedBetween>>

NoData == [defined |-> FALSE, path |-> "", cached |-> FALSE]
NoCache == [valid |-> FALSE, rows |-> <<>>]

Program == <<"init", "read", "countA", "countB", "print", "stop">>

\* Variant: the script ends after the print, spark.stop() is left out.
SuccSkipStop(l) ==
    CASE l = "init" -> "read"
      [] l = "read" -> "countA"
      [] l = "countA" -> "countB"
      [] l = "countB" -> "print"
      [] l = "print" -> "done"
      [] l = "stop" -> "done"

\* Variant: spark.stop() is called before the second count.
SuccStopEarly(l) ==
    CASE l = "init" -> "read"
      [] l = "read" -> "countA"
      [] l = "countA" -> "stop"
      [] l = "stop" -> "countB"
      [] l = "countB" -> "print"
      [] l = "print" -> "done"

\* The statement after statement l; the script has no branch and no loop.
Succ(l) ==
    CASE l = "init" -> "read"
      [] l = "read" -> "countA"
      [] l = "countA" -> "countB"
      [] l = "countB" -> "print"
      [] l = "print" -> "stop"
      [] l = "stop" -> "done"

Event(step, ok) == [step |-> step, ok |-> ok, session |-> spark]

\* An uncaught exception: the interpreter exits; nothing else changes.
Raise(step) ==
    /\ pc' = "failed"
    /\ trace' = Append(trace, Event(step, FALSE))

StartOfRun ==
    /\ pc = "init"
    /\ spark = "none"
    /\ sc = "none"
    /\ logData = NoData
    /\ cache = NoCache
    /\ numAs = <<>>
    /\ numBs = <<>>
    /\ stdout = <<>>
    /\ trace = <<>>
    /\ seenA = <<>>
    /\ seenB = <<>>
    /\ fileAtRead = <<>>
    /\ recomputed = FALSE
    /\ acquired = 0
    /\ released = 0
    /\ mutatedBetween = FALSE

Init ==
    /\ file \in {Missing} \cup {Present(ls) : ls \in Contents}
    /\ StartOfRun
    /\ snapshots = {file}
    /\ mutations = 0
    /\ run = 1
    /\ runStart = 0
    /\ transcript = <<>>

(* ---------------- the script ---------------- *)
\* lines 4-5: SparkSession.builder.appName("SimpleApp").getOrCreate()
SessionInit ==
    /\ pc = "init"
    /\ spark' = "open"
    /\ sc' = "ctx"
    /\ acquired' = acquired + 1
    /\ trace' = Append(trace, Event("init", TRUE))
    /\ pc' = Succ("init")
    /\ UNCHANGED <<file, logData, cache, numAs, numBs, stdout, seenA, seenB,
                   fileAtRead, snapshots, recomputed, released, mutations,
                   run, runStart, transcript, mutatedBetween>>

\* line 4 raises: no engine can be reached or started.
SessionInitFail ==
    /\ pc = "init"
    /\ Raise("init")
    /\ UNCHANGED <<file, spark, sc, logData, cache, numAs, numBs, stdout,
                   seenA, seenB, fileAtRead, snapshots, recomputed, acquired,
                   released, mutations, run, runStart, transcript,
                   mutatedBetween>>

\* Variant: the path is not resolved at line 7.
ReadLazy ==
    /\ pc = "read"
    /\ fileAtRead' = <<file>>
    /\ logData' = [defined |-> TRUE, path |-> path, cached |-> TRUE]
    /\ trace' = Append(trace, Event("read", TRUE))
    /\ pc' = Succ("read")
    /\ UNCHANGED <<file, spark, sc, cache, numAs, numBs, stdout, seenA, seenB,
                   snapshots, recomputed, acquired, released, mutations, run,
                   runStart, transcript, mutatedBetween>>

\* Variant: a resource without lines is refused like a missing one.
ReadRejectsEmpty ==
    /\ pc = "read"
    /\ fileAtRead' = <<file>>
    /\ IF file.exists /\ file.lines # <<>>
       THEN /\ logData' = [defined |-> TRUE, path |-> path, cached |-> TRUE]
            /\ trace' = Append(trace, Event("read", TRUE))
            /\ pc' = Succ("read")
       ELSE /\ Raise("read")
            /\ UNCHANGED logData
    /\ UNCHANGED <<file, spark, sc, cache, numAs, numBs, stdout, seenA, seenB,
                   snapshots, recomputed, acquired, released, mutations, run,
                   runStart, transcript, mutatedBetween>>

\* line 7: spark.read.text("/abc").cache(). The path is resolved now (a
\* missing path raises), the rows are not read: cache() only marks the plan.
Read ==
    /\ pc = "read"
    /\ fileAtRead' = <<file>>
    /\ IF file.exists
       THEN /\ logData' = [defined |-> TRUE, path |-> path, cached |-> TRUE]
            /\ trace' = Append(trace, Event("read", TRUE))
            /\ pc' = Succ("read")
       ELSE /\ Raise("read")
            /\ UNCHANGED logData
    /\ UNCHANGED <<file, spark, sc, cache, numAs, numBs, stdout, seenA, seenB,
                   snapshots, recomputed, acquired, released, mutations, run,
                   runStart, transcript, mutatedBetween>>

\* Variant: the count is taken over a sample of the rows.
CountASampled ==
    /\ pc = "countA"
    /\ IF Readable(cache, file)
       THEN LET rows == Evaluate(cache, file)
            IN  /\ \E k \in 0..Len(rows) :
                      numAs' = <<Count(Filter(SubSeq(rows, 1, k), needleA))>>
                /\ seenA' = <<rows>>
                /\ cache' = IF logData.cached THEN [valid |-> TRUE, rows |-> rows]
                                              ELSE cache
                /\ trace' = Append(trace, Event("countA", TRUE))
                /\ pc' = Succ("countA")
       ELSE /\ Raise("countA")
            /\ UNCHANGED <<numAs, seenA, cache>>
    /\ UNCHANGED <<file, spark, sc, logData, numBs, stdout, seenB, fileAtRead,
                   snapshots, recomputed, acquired, released, mutations, run,
                   runStart, transcript, mutatedBetween>>

\* Variant: the filtered rows are what gets cached as logData.
CountAKeepsFiltered ==
    /\ pc = "countA"
    /\ IF Readable(cache, file)
       THEN LET rows == Evaluate(cache, file)
            IN  /\ numAs' = <<Count(Filter(rows, needleA))>>
                /\ seenA' = <<rows>>
                /\ cache' = [valid |-> TRUE, rows |-> Filter(rows, needleA)]
                /\ trace' = Append(trace, Event("countA", TRUE))
                /\ pc' = Succ("countA")
       ELSE /\ Raise("countA")
            /\ UNCHANGED <<numAs, seenA, cache>>
    /\ UNCHANGED <<file, spark, sc, logData, numBs, stdout, seenB, fileAtRead,
                   snapshots, recomputed, acquired, released, mutations, run,
                   runStart, transcript, mutatedBetween>>

\* line 9: logData.filter(logData.value.contains('a')).count(). The first
\* action on logData: the source is scanned and the blocks are cached.
CountA ==
    /\ pc = "countA"
    /\ IF Readable(cache, file)
       THEN LET rows == Evaluate(cache, file)
            IN  /\ numAs' = <<Count(Filter(rows, needleA))>>
                /\ seenA' = <<rows>>
                /\ cache' = IF logData.cached THEN [valid |-> TRUE, rows |-> rows]
                                              ELSE cache
                /\ trace' = Append(trace, Event("countA", TRUE))
                /\ pc' = Succ("countA")
       ELSE /\ Raise("countA")
            /\ UNCHANGED <<numAs, seenA, cache>>
    /\ UNCHANGED <<file, spark, sc, logData, numBs, stdout, seenB, fileAtRead,
                   snapshots, recomputed, acquired, released, mutations, run,
                   runStart, transcript, mutatedBetween>>

\* line 10: logData.filter(logData.value.contains('b')).count()
CountB ==
    /\ pc = "countB"
    /\ IF Readable(cache, file)
       THEN LET rows == Evaluate(cache, file)
            IN  /\ numBs' = <<Count(Filter(rows, needleB))>>
                /\ seenB' = <<rows>>
                /\ recomputed' = ~cache.valid
                /\ cache' = IF logData.cached THEN [valid |-> TRUE, rows |-> rows]
                                              ELSE cache
                /\ trace' = Append(trace, Event("countB", TRUE))
                /\ pc' = Succ("countB")
       ELSE /\ Raise("countB")
            /\ UNCHANGED <<numBs, seenB, recomputed, cache>>
    /\ UNCHANGED <<file, spark, sc, logData, numAs, stdout, seenA, fileAtRead,
                   snapshots, acquired, released, mutations, run, runStart,
                   transcript, mutatedBetween>>

\* Variant: the exception of a failed job is caught and the count taken as 0.
QueryFailSwallowed ==
    /\ pc \in {"countA", "countB"}
    /\ trace' = Append(trace, Event(pc, FALSE))
    /\ pc' = Succ(pc)
    /\ IF pc = "countA"
       THEN numAs' = <<0>> /\ UNCHANGED numBs
       ELSE numBs' = <<0>> /\ UNCHANGED numAs
    /\ UNCHANGED <<file, spark, sc, logData, cache, stdout, seenA, seenB,
                   fileAtRead, snapshots, recomputed, acquired, released,
                   mutations, run, runStart, transcript, mutatedBetween>>

\* Variant: the session is stopped on the way out of a failed job.
QueryFailReleases ==
    /\ pc \in {"countA", "countB"}
    /\ Raise(pc)
    /\ spark' = "stopped"
    /\ released' = released + 1
    /\ UNCHANGED <<file, sc, logData, cache, numAs, numBs, stdout, seenA,
                   seenB, fileAtRead, snapshots, recomputed, acquired,
                   mutations, run, runStart, transcript, mutatedBetween>>

\* lines 9, 10 raise: a job of the engine fails for a reason of its own.
QueryFail ==
    /\ pc \in {"countA", "countB"}
    /\ Raise(pc)
    /\ UNCHANGED <<file, spark, sc, logData, cache, numAs, numBs, stdout,
                   seenA, seenB, fileAtRead, snapshots, recomputed, acquired,
                   released, mutations, run, runStart, transcript,
                   mutatedBetween>>

\* line 12: print("Lines with a: %i, lines with b: %i" % (numAs, numBs))
Report ==
    /\ pc = "print"
    /\ stdout' = Append(stdout, Format(numAs[1], numBs[1]))
    /\ trace' = Append(trace, Event("print", TRUE))
    /\ pc' = Succ("print")
    /\ UNCHANGED <<file, spark, sc, logData, cache, numAs, numBs, seenA,
                   seenB, fileAtRead, snapshots, recomputed, acquired,
                   released, mutations, run, runStart, transcript,
                   mutatedBetween>>

\* line 12 raises: standard output is closed.
ReportFail ==
    /\ pc = "print"
    /\ Raise("print")
    /\ UNCHANGED <<file, spark, sc, logData, cache, numAs, numBs, stdout,
                   seenA, seenB, fileAtRead, snapshots, recomputed, acquired,
                   released, mutations, run, runStart, transcript,
                   mutatedBetween>>

\* line 14: spark.stop(). The session goes, and its block store with it.
Stop ==
    /\ pc = "stop"
    /\ spark' = "stopped"
    /\ released' = released + 1
    /\ cache' = NoCache
    /\ trace' = Append(trace, Event("stop", TRUE))
    /\ pc' = Succ("stop")
    /\ UNCHANGED <<file, sc, logData, numAs, numBs, stdout, seenA, seenB,
                   fileAtRead, snapshots, recomputed, acquired, mutations,
                   run, runStart, transcript, mutatedBetween>>

(* ---------------- the environment ---------------- *)
\* Another actor rewrites /abc: removes it, creates it empty, appends a
\* line to it or drops its last line.
Rewrites(f) ==
    {Missing, Present(<<>>)}
    \cup (IF f.exists /\ Len(f.lines) < MaxLines
          THEN {Present(Append(f.lines, l)) : l \in Lines} ELSE {})
    \cup (IF f.exists /\ Len(f.lines) > 0
          THEN {Present(SubSeq(f.lines, 1, Len(f.lines) - 1))} ELSE {})

Mutate ==
    /\ mutations < MaxMutations
    /\ \E f \in Rewrites(file) \ {file} :
          /\ file' = f
          /\ snapshots' = snapshots \cup {f}
    /\ mutations' = mutations + 1
    /\ mutatedBetween' = (mutatedBetween \/ pc = "countB")
    /\ UNCHANGED <<scriptVars, cache, histVars, run, runStart, transcript>>

\* The engine drops the cached blocks of logData (an executor is lost, or
\* storage runs short); the next action recomputes them from the source.
CacheLost ==
    /\ cache.valid
    /\ cache' = NoCache
    /\ UNCHANGED <<envVars, scriptVars, histVars, snapshots, run, runStart,
                   transcript, mutatedBetween>>

\* The script is started again, in a new process.
Rerun ==
    /\ pc \in {"done", "failed"}
    /\ run = 1
    /\ transcript' = Append(transcript,
                            [out |-> stdout, ok |-> pc = "done",
                             m0 |-> runStart,
                             m1 |-> mutations])
    /\ run' = run + 1
    /\ runStart' = mutations
    /\ pc' = "init"
    /\ spark' = "none"
    /\ sc' = "none"
    /\ logData' = NoData
    /\ cache' = NoCache
    /\ numAs' = <<>>
    /\ numBs' = <<>>
    /\ stdout' = <<>>
    /\ trace' = <<>>
    /\ seenA' = <<>>
    /\ seenB' = <<>>
    /\ fileAtRead' = <<>>
    /\ recomputed' = FALSE
    /\ acquired' = 0
    /\ released' = 0
    /\ mutatedBetween' = FALSE
    /\ snapshots' = {file}
    /\ UNCHANGED envVars

Next ==
    \/ SessionInit
    \/ SessionInitFail
    \/ Read
    \/ CountA
    \/ CountB
    \/ QueryFail
    \/ Report
    \/ ReportFail
    \/ Stop
    \/ Mutate
    \/ CacheLost
    \/ Rerun

Spec == Init /\ [][Next]_vars

(* ---------------- the properties ---------------- *)
Printed == stdout # <<>>

LastEvent == trace[Len(trace)]

Failed(step) == pc = "failed" /\ LastEvent.step = step /\ ~LastEvent.ok

\* The text lines of a sequence of rows.
LinesOf(rows) == [i \in 1..Len(rows) |-> rows[i].value]

\* How many of the lines ls have the character ch at some position.
NumLinesWith(ls, ch) ==
    Cardinality({i \in 1..Len(ls) : \E j \in 1..Len(ls[i]) : ls[i][j] = ch})

\* /abc was not rewritten since this run started.
Undisturbed == mutations = runStart

\* C1: a run that prints, prints for 'a' the number of lines of the
\* collection it counted that contain "a" and for 'b' the number that
\* contain "b", each on its own, case-sensitively; when /abc is not
\* rewritten during the run that collection is the lines of /abc.
C1_CountsAreSubstringCounts ==
    Printed =>
        /\ numAs = <<NumLinesWith(LinesOf(seenA[1]), "a")>>
        /\ numBs = <<NumLinesWith(LinesOf(seenB[1]), "b")>>
        /\ stdout = <<Format(numAs[1], numBs[1])>>
        /\ Undisturbed => /\ LinesOf(seenA[1]) = file.lines
                          /\ LinesOf(seenB[1]) = file.lines

C1_Witness ==
    /\ pc = "done"
    /\ Undisturbed
    /\ file = Present(<<banana, apple, cherry>>)
    /\ stdout = << <<"Lines with a: ", "2", ", lines with b: ", "1">> >>

\* C2 as stated: when /abc is rewritten between the two counts, the two
\* printed counts are the counts of one single content /abc had in this run.
C2_OneSnapshot ==
    (Printed /\ mutatedBetween) =>
        \E f \in snapshots :
            /\ f.exists
            /\ numAs = <<NumLinesWith(f.lines, "a")>>
            /\ numBs = <<NumLinesWith(f.lines, "b")>>

\* C2 amended: when /abc is rewritten between the two counts and the
\* engine still holds the cached blocks at the second count, both counts
\* are counts of the rows the first count cached.
C2_OneSnapshotWhileCached ==
    (Printed /\ mutatedBetween /\ ~recomputed) =>
        /\ seenB = seenA
        /\ numAs = <<NumLinesWith(LinesOf(seenA[1]), "a")>>
        /\ numBs = <<NumLinesWith(LinesOf(seenA[1]), "b")>>
        /\ \E f \in snapshots : f.exists /\ f.lines = LinesOf(seenA[1])

C2_Witness ==
    /\ Printed
    /\ mutatedBetween
    /\ ~recomputed
    /\ file.exists
    /\ NumLinesWith(file.lines, "b") # numBs[1]

\* C3: when the path is missing as line 7 runs, the run has failed at the
\* read and has printed nothing.
C3_MissingPathFails ==
    (fileAtRead # <<>> /\ ~fileAtRead[1].exists) =>
        /\ Failed("read")
        /\ stdout = <<>>
        /\ numAs = <<>> /\ numBs = <<>>

C3_Witness ==
    /\ fileAtRead = <<Missing>>
    /\ pc = "failed"
    /\ spark = "open"

\* C4: two successful runs between which (and during which) /abc is not
\* rewritten print the same.
C4_Deterministic ==
    (run = 2 /\ pc = "done" /\ transcript[1].ok /\ mutations = transcript[1].m0) =>
        stdout = transcript[1].out

C4_Witness ==
    /\ run = 2
    /\ pc = "done"
    /\ transcript[1].ok
    /\ mutations = transcript[1].m0
    /\ stdout = << <<"Lines with a: ", "1", ", lines with b: ", "2">> >>

\* C5: a resource that exists and has no lines is read without failure,
\* and a run over it that prints, prints 0 and 0.
C5_EmptyResource ==
    (fileAtRead = <<Present(<<>>)>>) =>
        /\ ~Failed("read")
        /\ (Printed /\ Undisturbed) =>
              stdout = << <<"Lines with a: ", "0", ", lines with b: ", "0">> >>

C5_Witness ==
    /\ pc = "done"
    /\ fileAtRead = <<Present(<<>>)>>
    /\ Undisturbed
    /\ stdout = << <<"Lines with a: ", "0", ", lines with b: ", "0">> >>

\* C6: the steps run in the order of Program, each at most once, only the
\* last one taken may have failed; a run without failure is at the step after
\* the ones taken and ends with all six taken; the line is printed once, with
\* both counts there, and the shutdown comes once, after the print.
C6_FixedOrder ==
    /\ Len(trace) <= Len(Program)
    /\ \A i \in 1..Len(trace) : trace[i].step = Program[i]
    /\ \A i \in 1..(Len(trace) - 1) : trace[i].ok
    /\ pc # "failed" =>
          pc = IF Len(trace) = Len(Program) THEN "done" ELSE Program[Len(trace) + 1]
    /\ Len(stdout) <= 1
    /\ Printed => numAs # <<>> /\ numBs # <<>>
    /\ released <= 1
    /\ released = 1 => Printed /\ pc = "done"

C6_Witness ==
    /\ pc = "done"
    /\ Len(trace) = 6
    /\ released = 1
    /\ Printed

\* C7: once a step has failed the run is over: the failed step is the last
\* one taken, nothing was printed, no count was set by it, and from then on
\* the script changes nothing (until the script is started anew).
C7_FailFast ==
    [][ /\ (\E i \in 1..Len(trace) : ~trace[i].ok) =>
              /\ pc = "failed"
              /\ ~LastEvent.ok
              /\ stdout = <<>>
              /\ LastEvent.step = "countA" => numAs = <<>>
              /\ LastEvent.step \in {"countA", "countB"} => numBs = <<>>
        /\ pc = "failed" =>
              \/ UNCHANGED <<scriptVars, histVars>>
              \/ run' # run ]_vars

C7_Witness ==
    /\ Failed("countB")
    /\ numAs # <<>>
    /\ stdout = <<>>

\* C8: a run that failed after the session was opened ends with the session
\* open and not released; a run that ends without failure released it once,
\* after the print.
C8_NoGuaranteedRelease ==
    /\ (pc = "failed" /\ trace[1].ok) =>
          spark = "open" /\ acquired = 1 /\ released = 0
    /\ pc = "done" =>
          /\ spark = "stopped" /\ released = 1
          /\ trace[5] = [step |-> "print", ok |-> TRUE, session |-> "open"]
          /\ trace[6].step = "stop"

C8_Witness ==
    /\ Failed("countB")
    /\ spark = "open"
    /\ released = 0

\* C9: the counts and the print leave the DataFrame, the resource and the
\* rows the DataFrame stands for as they were, and the rows seen by the
\* second count are the lines /abc had at line 7 (in a run during which no
\* other actor rewrites /abc).
C9_ReadOnly ==
    [][ (pc \in {"countA", "countB", "print"} /\ pc' # pc /\ run' = run) =>
          /\ logData' = logData
          /\ file' = file
          /\ cache.valid => cache' = cache
          /\ (Readable(cache, file) /\ pc' # "failed") =>
                /\ Readable(cache', file')
                /\ LinesOf(Evaluate(cache', file')) = LinesOf(Evaluate(cache, file))
          /\ (pc = "countB" /\ pc' = "print" /\ Undisturbed) =>
                /\ LinesOf(seenB'[1]) = fileAtRead[1].lines
                /\ seenB' = seenA ]_vars

C9_Witness ==
    /\ pc = "done"
    /\ Undisturbed
    /\ Len(seenB[1]) = MaxLines
    /\ LinesOf(seenB[1]) = fileAtRead[1].lines
    /\ numAs # numBs

\* C10: the session is acquired at most once and released at most once,
\* and the read and both counts were issued while the session was open.
C10_SessionDiscipline ==
    /\ acquired <= 1
    /\ released <= acquired
    /\ spark = "open" <=> (acquired = 1 /\ released = 0)
    /\ spark = "stopped" <=> released = 1
    /\ \A i \in 1..Len(trace) :
          trace[i].step \in {"read", "countA", "countB"} => trace[i].session = "open"

C10_Witness ==
    /\ pc = "done"
    /\ acquired = 1
    /\ released = 1
    /\ \E i \in 1..Len(trace) : trace[i].step = "countB" /\ trace[i].session = "open"

====
